---- MODULE Spec2Model ----
(***************************************************************************)
(* Model of flights_availability_check.py: the route filter pipeline, the  *)
(* search orchestrator, the two throttle gates (daily digest, startup      *)
(* notice) with their advisory file locks, and the run driver.             *)
(*                                                                         *)
(* Conventions                                                             *)
(*   - Python strings that are searched by substring (JAirlines, airline   *)
(*     codes) are sequences of one-character strings.                      *)
(*   - A falsy optional list (None, missing key, []) is the empty          *)
(*     sequence <<>>; an optional scalar is <<>> (missing/None) or <<v>>.  *)
(*   - A UTC calendar day is a natural number; the datetime of its         *)
(*     midnight is that number.  NoneDt is Python's None for a datetime.   *)
(***************************************************************************)
EXTENDS Integers, Sequences, FiniteSets, TLC

\* ------------------------------------------------------------------ bounds

\* Number of overlapping process instances the scheduler may launch.
NumProcs == 2
\* Last UTC calendar day the wall clock reaches (days are 1..MaxDay).
MaxDay == 2
\* Most rows one search response carries in the run specifications.
MaxRows == 1

Procs == 1..NumProcs
Days == 1..MaxDay

VARIABLES
    \* ---- configuration (search_routes' local `searches`, flattened)
    searches,
    \* ---- per process: position and locals of check_flights_once
    pc,             \* control point of each process
    idx,            \* search_routes: index of the (period, program, route) triple
    searched,       \* search_routes: the "Searching ..." log, one entry per check_seats call
    data,           \* search_routes: what check_seats returned for the current triple
    all_results,    \* search_routes: accumulated results
    results,        \* check_flights_once: value returned by search_routes
    deliveries,     \* send_telegram_message calls of the run, in order
    outcome,        \* value returned by check_flights_once
    exc,            \* the exception check_flights_once caught ("" when none)
    \* ---- per process: locals of should_send_hourly_message
    current_day,    \* midnight of the `now` the call read
    last_hourly_message, \* what get_last_hourly_message returned
    decision,       \* the gate's return value
    gate_calls,     \* how often the run called should_send_hourly_message
    gate_err,       \* which step of the gate call failed ("" when none)
    \* ---- per process: locals of should_send_startup_message
    startup_decision,
    startup_err,
    marker_at_call, \* whether the .sent marker existed when the call began
    \* ---- shared durable state
    today,          \* the wall clock's UTC calendar day
    ts_file,        \* HOURLY_TIMESTAMP_FILE
    hourly_lock,    \* holder of the flock on /tmp/hourly_message_lock.txt (0: free)
    startup_lock,   \* holder of the flock on STARTUP_LOCK_FILE (0: free)
    sent_marker,    \* whether STARTUP_LOCK_FILE + ".sent" exists
    \* ---- history
    true_count,     \* per day: calls of the daily gate that returned True (capped)
    called_for,     \* days for which a daily gate call has completed
    io_fault,       \* a read or write of ts_file has failed
    startup_trues,  \* calls of the startup gate that returned True (capped)
    refused         \* per lock holder: days of callers it turned away with no digest recorded

vars == <<searches, exc, pc, idx, searched, data, all_results, results, deliveries,
          outcome, current_day, last_hourly_message, decision, gate_calls,
          gate_err, startup_decision, startup_err, marker_at_call, today,
          ts_file, hourly_lock, startup_lock, sent_marker, true_count,
          called_for, io_fault, startup_trues, refused>>

runVars == <<exc, pc, idx, searched, data, all_results, results, deliveries, outcome>>
gateVars == <<current_day, last_hourly_message, decision, gate_calls, gate_err>>
startupVars == <<startup_decision, startup_err, marker_at_call>>
searchVars == <<idx, searched, data, all_results, results>>
throttleState == <<ts_file, hourly_lock, startup_lock, sent_marker>>
history == <<true_count, called_for, io_fault, startup_trues, refused>>

\* ----------------------------------------------------------- strings

AA == <<"A", "A">>
JX == <<"J", "X">>

\* Python's `needle in hay` on strings.
Contains(needle, hay) ==
    \E k \in 0..(Len(hay) - Len(needle)) : SubSeq(hay, k + 1, k + Len(needle)) = needle

\* str.lower() on the program-source strings the model draws.
Lower(s) ==
    CASE s = "Alaska" -> "alaska"
      [] s = "AEROPLAN" -> "aeroplan"
      [] OTHER -> s

NoneDt == -1

\* ------------------------------------------------ route configuration

\* search_routes' `searches` literal.  The nested loops over periods, programs
\* and routes visit the triples in insertion order; the literal is written
\* here as that sequence.
SearchConfig ==
    << [period |-> "dec_us_to_asia",
        date_range |-> <<"2025-12-05", "2025-12-15">>,
        program |-> "alaska",
        route_config |->
          [name |-> "ORD-HKG (Any airline, connecting OK)",
           origins |-> {"ORD"},
           destinations |-> {"HKG"},
           airlines |-> <<>>,
           max_miles |-> 85000,
           direct_only |-> FALSE,
           route_preferences |-> <<>>]],
       [period |-> "dec_us_to_asia",
        date_range |-> <<"2025-12-05", "2025-12-15">>,
        program |-> "alaska",
        route_config |->
          [name |-> "US-Asia (Direct flights only)",
           origins |-> {"ORD", "DFW", "LAX", "SFO"},
           destinations |-> {"HND", "NRT", "TPE"},
           airlines |-> <<>>,
           max_miles |-> 75000,
           direct_only |-> TRUE,
           route_preferences |->
             << [origins |-> {"ORD", "DFW"}, destinations |-> {"HND", "NRT"},
                 airlines |-> <<AA>>],
                [origins |-> {"LAX", "SFO"}, destinations |-> {"TPE"},
                 airlines |-> <<JX>>] >>]],
       [period |-> "dec_us_to_asia",
        date_range |-> <<"2025-12-05", "2025-12-15">>,
        program |-> "aeroplan",
        route_config |->
          [name |-> "ORD/LAX/SFO/SEA-TPE/HND/NRT (Direct only)",
           origins |-> {"ORD", "LAX", "SFO", "SEA"},
           destinations |-> {"TPE", "HND", "NRT"},
           airlines |-> <<>>,
           max_miles |-> 87500,
           direct_only |-> TRUE,
           route_preferences |-> <<>>]] >>

\* ----------------------------------------------------- filter pipeline

\* filter_by_airline: no restriction when required_airlines is falsy, else some
\* required code is a substring of the row's JAirlines.
filter_by_airline(item, required_airlines) ==
    IF required_airlines = <<>>
    THEN TRUE
    ELSE \E i \in DOMAIN required_airlines :
            Contains(required_airlines[i], item.JAirlines)

\* filter_by_direct
filter_by_direct(item, direct_only) ==
    IF ~direct_only THEN TRUE ELSE item.JDirect

\* One iteration of filter_by_route_preferences' loop: the three `continue`s.
PrefMatches(item, pref) ==
    /\ item.OriginAirport \in pref.origins
    /\ item.DestinationAirport \in pref.destinations
    /\ \/ pref.airlines = <<>>
       \/ \E i \in DOMAIN pref.airlines : Contains(pref.airlines[i], item.JAirlines)

RECURSIVE PrefLoop(_, _, _)
PrefLoop(item, route_preferences, i) ==
    IF i > Len(route_preferences) THEN FALSE
    ELSE IF PrefMatches(item, route_preferences[i]) THEN TRUE
    ELSE PrefLoop(item, route_preferences, i + 1)

\* filter_by_route_preferences
filter_by_route_preferences(item, route_preferences) ==
    IF route_preferences = <<>>
    THEN TRUE
    ELSE PrefLoop(item, route_preferences, 1)

\* int(item.get("JMileageCost", 0) or 0)
Miles(item) ==
    IF item.JMileageCost = <<>> THEN 0 ELSE item.JMileageCost[1]

\* Mutant: a row at the cap is rejected.
WithinMilesStrict(miles, max_miles) == miles < max_miles

\* miles > route_config["max_miles"] rejects the row.
WithinMiles(miles, max_miles) == ~(miles > max_miles)

\* `if route_config.get("route_preferences"): ... else: ...`
PassesRouteOrAirline(item, route_config) ==
    IF route_config.route_preferences # <<>>
    THEN filter_by_route_preferences(item, route_config.route_preferences)
    ELSE filter_by_airline(item, route_config.airlines)

\* The chain of `continue`s of search_routes' inner loop: TRUE when the row
\* reaches `all_results.append`.
PassesFilters(item, program, route_config) ==
    /\ Lower(item.Source) = program
    /\ ~(~item.JAvailable \/ item.JRemainingSeats <= 0)
    /\ WithinMiles(Miles(item), route_config.max_miles)
    /\ PassesRouteOrAirline(item, route_config)
    /\ filter_by_direct(item, route_config.direct_only)

\* The `result` dict built for a surviving row.
MakeResult(item, search) ==
    [period |-> search.period,
     program |-> search.program,
     route_name |-> search.route_config.name,
     origin |-> item.OriginAirport,
     destination |-> item.DestinationAirport,
     date |-> item.Date,
     miles |-> Miles(item),
     seats |-> item.JRemainingSeats,
     airlines |-> item.JAirlines,
     is_direct |-> item.JDirect]

\* `for item in data["data"]`: the results appended for one response, in the
\* response's order.
RECURSIVE FilterRows(_, _, _)
FilterRows(rows, search, i) ==
    IF i > Len(rows) THEN <<>>
    ELSE (IF PassesFilters(rows[i], search.program, search.route_config)
          THEN <<MakeResult(rows[i], search)>> ELSE <<>>)
         \o FilterRows(rows, search, i + 1)

\* --------------------------------------------------- search responses

BAA == <<"B", "A", "A">>

\* Rows the run specifications draw responses from: a connecting Alaska
\* ORD-HKG row with seats, the same row sold out, and a direct Aeroplan
\* ORD-TPE row whose source is spelled in upper case.
SampleRows ==
    { [Source |-> "alaska", OriginAirport |-> "ORD", DestinationAirport |-> "HKG",
       Date |-> "2025-12-06", JAvailable |-> TRUE, JRemainingSeats |-> 2,
       JMileageCost |-> <<85000>>, JAirlines |-> AA, JDirect |-> FALSE],
      [Source |-> "alaska", OriginAirport |-> "ORD", DestinationAirport |-> "HKG",
       Date |-> "2025-12-06", JAvailable |-> TRUE, JRemainingSeats |-> 0,
       JMileageCost |-> <<85000>>, JAirlines |-> AA, JDirect |-> FALSE],
      [Source |-> "AEROPLAN", OriginAirport |-> "ORD", DestinationAirport |-> "TPE",
       Date |-> "2025-12-07", JAvailable |-> TRUE, JRemainingSeats |-> 1,
       JMileageCost |-> <<>>, JAirlines |-> JX, JDirect |-> TRUE] }

\* Rows the filter specification draws from.
AllRows ==
    [Source : {"alaska", "Alaska", "aeroplan", "AEROPLAN", "united"},
     OriginAirport : {"ORD", "LAX", "SEA"},
     DestinationAirport : {"HKG", "HND", "TPE"},
     Date : {"2025-12-06"},
     JAvailable : BOOLEAN,
     JRemainingSeats : {0, 1},
     JMileageCost : {<<>>, <<0>>, <<75000>>, <<75001>>, <<85000>>, <<85001>>,
                     <<87500>>, <<87501>>},
     JAirlines : {<<>>, AA, JX, BAA},
     JDirect : BOOLEAN]

\* Non-empty responses of at most n rows over a pool.
Responses(Pool, n) == UNION { [1..k -> Pool] : k \in 1..n }

\* check_seats' return value: None, or the decoded JSON body, which is either
\* an object (with its "data" list, empty when absent) or some other truthy
\* JSON value (an array, a string, a number).
NoneData == [kind |-> "None", rows |-> <<>>]
NonObject == [kind |-> "nonobject", rows |-> <<>>]
Object(rows) == [kind |-> "object", rows |-> rows]

\* `not data or not data.get("data")` for None and for an object.
IsSkipped(d) == d.kind = "None" \/ (d.kind = "object" /\ d.rows = <<>>)

\* ------------------------------------------------------------ messages

\* Mutant: no message is built.
create_found_message_none(rs) == <<>>

\* create_found_message: None for no results, else the rendered digest (its
\* text is not modelled beyond the number of flights it reports).
create_found_message(rs) ==
    IF rs = <<>> THEN <<>> ELSE <<[kind |-> "found", flights |-> Len(rs)]>>

NoOutcome == [status |-> "pending"]

\* ------------------------------------------------------ persisted state

\* Content of a timestamp file that datetime.fromisoformat rejects (the empty
\* file left by a failed write after open(..., 'w') truncated it).
Unparsable == -2

AbsentFile == [exists |-> FALSE, text |-> Unparsable]
IsoFile(day) == [exists |-> TRUE, text |-> day]
TruncatedFile == [exists |-> TRUE, text |-> Unparsable]

\* get_last_hourly_message when no I/O error occurs: None for a missing file
\* and for text that does not parse, else the parsed datetime.
get_last_hourly_message(f) ==
    IF ~f.exists THEN NoneDt
    ELSE IF f.text = Unparsable THEN NoneDt
    ELSE f.text

\* Mutant: the day comparison admits the day already on record.
ShouldSendSameDay(last, day) == last = NoneDt \/ last <= day

\* Mutant: the day comparison is missing, so the gate never opens again.
ShouldSendFirstOnly(last, day) == last = NoneDt

\* `last_hourly_message is None or last_hourly_message < current_day`
ShouldSend(last, day) == last = NoneDt \/ last < day

\* Mutant: the lock excludes nobody.
LockAlwaysFree(holder) == TRUE

\* fcntl.flock(LOCK_EX | LOCK_NB) succeeds when no other open file holds the lock.
LockFree(holder) == holder = 0

Cap(n) == IF n >= 2 THEN 2 ELSE n + 1

\* ---------------------------------------------------------------- Init

InitLocals ==
    /\ pc = [p \in Procs |-> "idle"]
    /\ idx = [p \in Procs |-> 1]
    /\ data = [p \in Procs |-> NoneData]
    /\ all_results = [p \in Procs |-> <<>>]
    /\ results = [p \in Procs |-> <<>>]
    /\ deliveries = [p \in Procs |-> <<>>]
    /\ outcome = [p \in Procs |-> NoOutcome]
    /\ exc = [p \in Procs |-> ""]
    /\ searched = [p \in Procs |-> <<>>]
    /\ current_day = [p \in Procs |-> 1]
    /\ last_hourly_message = [p \in Procs |-> NoneDt]
    /\ decision = [p \in Procs |-> FALSE]
    /\ gate_calls = [p \in Procs |-> 0]
    /\ gate_err = [p \in Procs |-> ""]
    /\ startup_decision = [p \in Procs |-> FALSE]
    /\ startup_err = [p \in Procs |-> ""]
    /\ marker_at_call = [p \in Procs |-> FALSE]

\* A fresh deployment: no timestamp file, no marker, both locks free.
InitShared ==
    /\ today = 1
    /\ ts_file = AbsentFile
    /\ hourly_lock = 0
    /\ startup_lock = 0
    /\ sent_marker = FALSE
    /\ true_count = [d \in Days |-> 0]
    /\ called_for = {}
    /\ io_fault = FALSE
    /\ startup_trues = 0
    /\ refused = [p \in Procs |-> {}]

Init ==
    /\ searches = SearchConfig
    /\ InitLocals
    /\ InitShared

\* ------------------------------------------------- check_flights_once

\* The scheduler launches a run: check_flights_once enters search_routes.
RunStart(p) ==
    /\ pc[p] = "idle"
    /\ pc' = [pc EXCEPT ![p] = "search_loop"]
    /\ UNCHANGED <<searches, exc, searchVars, deliveries, outcome, gateVars,
                   startupVars, today, throttleState, history>>

\* check_seats for the current triple, with the value it returns.
CheckSeats(p, d) ==
    /\ pc[p] = "search_loop"
    /\ idx[p] <= Len(searches)
    /\ searched' = [searched EXCEPT ![p] = Append(@, idx[p])]
    /\ data' = [data EXCEPT ![p] = d]
    /\ pc' = [pc EXCEPT ![p] = "filter"]
    /\ UNCHANGED <<searches, exc, idx, all_results, results, deliveries, outcome,
                   gateVars, startupVars, today, throttleState, history>>

\* requests.get raises, raise_for_status raises or response.json() cannot
\* decode the body: check_seats prints the error and returns None.
CheckSeatsFails(p) == CheckSeats(p, NoneData)

\* The body decodes to JSON that is not an object.
CheckSeatsNonObject(p) == CheckSeats(p, NonObject)

\* The body decodes to an object without rows.
CheckSeatsEmpty(p) == CheckSeats(p, Object(<<>>))

\* The body decodes to an object with rows (run specifications).
CheckSeatsRows(p) ==
    /\ pc[p] = "search_loop"
    /\ \E rows \in Responses(SampleRows, MaxRows) : CheckSeats(p, Object(rows))

\* `if not data or not data.get("data"): continue`
SkipRoute(p) ==
    /\ pc[p] = "filter"
    /\ IsSkipped(data[p])
    /\ idx' = [idx EXCEPT ![p] = @ + 1]
    /\ data' = [data EXCEPT ![p] = NoneData]
    /\ pc' = [pc EXCEPT ![p] = "search_loop"]
    /\ UNCHANGED <<searches, exc, searched, all_results, results, deliveries,
                   outcome, gateVars, startupVars, today, throttleState, history>>

\* `data.get("data")` on a value that is not a dict raises AttributeError,
\* which leaves search_routes and reaches check_flights_once's handler.
PayloadRaises(p) ==
    /\ pc[p] = "filter"
    /\ data[p].kind = "nonobject"
    /\ pc' = [pc EXCEPT ![p] = "except"]
    /\ exc' = [exc EXCEPT ![p] = "AttributeError"]
    /\ data' = [data EXCEPT ![p] = NoneData]
    /\ all_results' = [all_results EXCEPT ![p] = <<>>]
    /\ UNCHANGED <<searches, idx, searched, results, deliveries, outcome,
                   gateVars, startupVars, today, throttleState, history>>

\* The inner loop over data["data"].
FilterResponse(p) ==
    /\ pc[p] = "filter"
    /\ data[p].kind = "object"
    /\ data[p].rows # <<>>
    /\ all_results' = [all_results EXCEPT
                         ![p] = @ \o FilterRows(data[p].rows, searches[idx[p]], 1)]
    /\ idx' = [idx EXCEPT ![p] = @ + 1]
    /\ data' = [data EXCEPT ![p] = NoneData]
    /\ pc' = [pc EXCEPT ![p] = "search_loop"]
    /\ UNCHANGED <<searches, exc, searched, results, deliveries, outcome,
                   gateVars, startupVars, today, throttleState, history>>

\* `return all_results`
SearchReturn(p) ==
    /\ pc[p] = "search_loop"
    /\ idx[p] > Len(searches)
    /\ results' = [results EXCEPT ![p] = all_results[p]]
    /\ all_results' = [all_results EXCEPT ![p] = <<>>]
    /\ pc' = [pc EXCEPT ![p] = "results"]
    /\ UNCHANGED <<searches, exc, idx, searched, data, deliveries,
                   outcome, gateVars, startupVars, today, throttleState, history>>

\* send_telegram_message: one delivery attempt, which succeeds or fails; either
\* way the function returns without raising.
Send(p, kind, ok) ==
    deliveries' = [deliveries EXCEPT ![p] = Append(@, [kind |-> kind, ok |-> ok])]

\* `if results:` branch: the found message is built and, `if message:`, sent.
SendFound(p) ==
    /\ pc[p] = "results"
    /\ results[p] # <<>>
    /\ IF create_found_message(results[p]) # <<>>
       THEN \E ok \in BOOLEAN : Send(p, "found", ok)
       ELSE UNCHANGED deliveries
    /\ pc' = [pc EXCEPT ![p] = "return"]
    /\ UNCHANGED <<searches, exc, searchVars, outcome, gateVars, startupVars, today,
                   throttleState, history>>

\* `else:` branch: should_send_hourly_message is called and reads the clock.
GateNow(p) ==
    /\ pc[p] = "results"
    /\ results[p] = <<>>
    /\ current_day' = [current_day EXCEPT ![p] = today]
    /\ gate_calls' = [gate_calls EXCEPT ![p] = @ + 1]
    /\ pc' = [pc EXCEPT ![p] = "gate_open"]
    /\ UNCHANGED <<searches, exc, searchVars, deliveries, outcome, decision, gate_err,
                   last_hourly_message, startupVars, today, throttleState, history>>

\* ------------------------------------------ should_send_hourly_message

\* Frame of a gate step that touches only the caller's position.
GateFrame ==
    UNCHANGED <<searches, exc, searchVars, deliveries, outcome, current_day,
                gate_calls, startupVars, today, startup_lock, sent_marker,
                startup_trues>>

\* A digest is on record for `day` when the timestamp file holds that day or a later one.
DigestRecorded(day) == ts_file.exists /\ ts_file.text # Unparsable /\ ts_file.text >= day

\* open(lock_file_path, 'w') succeeds.
GateOpenLock(p) ==
    /\ pc[p] = "gate_open"
    /\ pc' = [pc EXCEPT ![p] = "gate_flock"]
    /\ GateFrame
    /\ UNCHANGED <<last_hourly_message, decision, gate_err, ts_file, hourly_lock,
                   history>>

\* open(lock_file_path, 'w') raises IOError: `except IOError: return False`.
GateOpenLockFails(p) ==
    /\ pc[p] = "gate_open"
    /\ decision' = [decision EXCEPT ![p] = FALSE]
    /\ gate_err' = [gate_err EXCEPT ![p] = "lock"]
    /\ pc' = [pc EXCEPT ![p] = "gate_exit"]
    /\ GateFrame
    /\ UNCHANGED <<last_hourly_message, ts_file, hourly_lock, history>>

\* flock(LOCK_EX | LOCK_NB) succeeds.
GateFlock(p) ==
    /\ pc[p] = "gate_flock"
    /\ LockFree(hourly_lock)
    /\ hourly_lock' = p
    /\ pc' = [pc EXCEPT ![p] = "gate_read"]
    /\ GateFrame
    /\ UNCHANGED <<last_hourly_message, decision, gate_err, ts_file, history>>

\* flock raises BlockingIOError because another process holds the lock:
\* `except IOError: return False`, with no retry.
GateFlockBusy(p) ==
    /\ pc[p] = "gate_flock"
    /\ ~LockFree(hourly_lock)
    /\ decision' = [decision EXCEPT ![p] = FALSE]
    /\ gate_err' = [gate_err EXCEPT ![p] = "busy"]
    /\ refused' = [refused EXCEPT ![hourly_lock] =
                      IF DigestRecorded(current_day[p]) THEN @
                      ELSE @ \cup {current_day[p]}]
    /\ pc' = [pc EXCEPT ![p] = "gate_exit"]
    /\ GateFrame
    /\ UNCHANGED <<last_hourly_message, ts_file, hourly_lock, true_count,
                   called_for, io_fault>>

\* Lines 339-346 once get_last_hourly_message has returned `last`: either
\* save_last_hourly_message is called next, or `return False`.
GateDecide(p, last) ==
    /\ last_hourly_message' = [last_hourly_message EXCEPT ![p] = last]
    /\ IF ShouldSend(last, current_day[p])
       THEN /\ pc' = [pc EXCEPT ![p] = "gate_save"]
            /\ UNCHANGED decision
       ELSE /\ pc' = [pc EXCEPT ![p] = "gate_exit"]
            /\ decision' = [decision EXCEPT ![p] = FALSE]

\* get_last_hourly_message returns without an I/O error (None for a missing
\* file or for text that does not parse).
GateRead(p) ==
    /\ pc[p] = "gate_read"
    /\ GateDecide(p, get_last_hourly_message(ts_file))
    /\ gate_err' = [gate_err EXCEPT
                      ![p] = IF ts_file.exists /\ ts_file.text = Unparsable
                             THEN "parse" ELSE @]
    /\ GateFrame
    /\ UNCHANGED <<ts_file, hourly_lock, history>>

\* Opening or reading the timestamp file raises: get_last_hourly_message
\* prints the error and returns None.
GateReadFails(p) ==
    /\ pc[p] = "gate_read"
    /\ ts_file.exists
    /\ GateDecide(p, NoneDt)
    /\ gate_err' = [gate_err EXCEPT ![p] = "read"]
    /\ io_fault' = TRUE
    /\ GateFrame
    /\ UNCHANGED <<ts_file, hourly_lock, true_count, called_for, startup_trues,
                   refused>>

\* What save_last_hourly_message(timestamp) leaves in the file when it succeeds.
SavedFile(timestamp) == IsoFile(timestamp)

\* save_last_hourly_message(current_day) succeeds; `return True`.
GateSave(p) ==
    /\ pc[p] = "gate_save"
    /\ ts_file' = SavedFile(current_day[p])
    /\ decision' = [decision EXCEPT ![p] = TRUE]
    /\ pc' = [pc EXCEPT ![p] = "gate_exit"]
    /\ GateFrame
    /\ UNCHANGED <<last_hourly_message, gate_err, hourly_lock, history>>

\* save_last_hourly_message fails: either open(..., 'w') raises and the file is
\* untouched, or the write raises after open truncated the file.  The error
\* is printed and swallowed; `return True` follows.
GateSaveFails(p) ==
    /\ pc[p] = "gate_save"
    /\ \/ UNCHANGED ts_file
       \/ ts_file' = TruncatedFile
    /\ decision' = [decision EXCEPT ![p] = TRUE]
    /\ gate_err' = [gate_err EXCEPT ![p] = "write"]
    /\ io_fault' = TRUE
    /\ pc' = [pc EXCEPT ![p] = "gate_exit"]
    /\ GateFrame
    /\ UNCHANGED <<last_hourly_message, hourly_lock, true_count, called_for,
                   startup_trues, refused>>

\* Mutant: the digest is sent whatever the gate decided.
AfterGateAlways(d) == "send_daily"

\* `if should_send_hourly_message(): ... else: ...` in check_flights_once.
AfterGate(d) == IF d THEN "send_daily" ELSE "return"

\* The call returns: leaving the `with` block closes the lock file, which
\* releases the flock if this call held it, and the decision reaches
\* `if should_send_hourly_message():`.
GateExit(p) ==
    /\ pc[p] = "gate_exit"
    /\ hourly_lock' = IF hourly_lock = p THEN 0 ELSE hourly_lock
    /\ true_count' = [true_count EXCEPT
                        ![current_day[p]] = IF decision[p] THEN Cap(@) ELSE @]
    /\ called_for' = called_for \cup {current_day[p]}
    /\ refused' = [refused EXCEPT ![p] = {}]
    /\ pc' = [pc EXCEPT ![p] = AfterGate(decision[p])]
    /\ UNCHANGED <<searches, exc, searchVars, deliveries, outcome, gateVars,
                   startupVars, today, ts_file, startup_lock, sent_marker,
                   io_fault, startup_trues>>

\* send_telegram_message(create_no_flights_message())
SendDaily(p) ==
    /\ pc[p] = "send_daily"
    /\ \E ok \in BOOLEAN : Send(p, "daily", ok)
    /\ pc' = [pc EXCEPT ![p] = "return"]
    /\ UNCHANGED <<searches, exc, searchVars, outcome, gateVars, startupVars, today,
                   throttleState, history>>

\* `return {"status": "success", "flights_found": ...}`
ReturnSuccess(p) ==
    /\ pc[p] = "return"
    /\ outcome' = [outcome EXCEPT
                     ![p] = [status |-> "success",
                             flights_found |-> IF results[p] # <<>>
                                               THEN Len(results[p]) ELSE 0]]
    /\ pc' = [pc EXCEPT ![p] = "done"]
    /\ UNCHANGED <<searches, exc, searchVars, deliveries, gateVars, startupVars,
                   today, throttleState, history>>

\* Mutant: the handler returns the error outcome without sending the notice.
HandleExceptionNoNotice(p) ==
    /\ pc[p] = "except"
    /\ outcome' = [outcome EXCEPT ![p] = [status |-> "error", error |-> exc[p]]]
    /\ pc' = [pc EXCEPT ![p] = "done"]
    /\ UNCHANGED <<searches, exc, searchVars, deliveries, gateVars, startupVars,
                   today, throttleState, history>>

\* `except Exception as e:` the error notice is sent and the error outcome returned.
HandleException(p) ==
    /\ pc[p] = "except"
    /\ \E ok \in BOOLEAN : Send(p, "error", ok)
    /\ outcome' = [outcome EXCEPT ![p] = [status |-> "error", error |-> exc[p]]]
    /\ pc' = [pc EXCEPT ![p] = "done"]
    /\ UNCHANGED <<searches, exc, searchVars, gateVars, startupVars, today,
                   throttleState, history>>

\* The process ends and its locals are gone; the scheduler may launch the next run.
Exit(p) ==
    /\ pc[p] = "done"
    /\ pc' = [pc EXCEPT ![p] = "idle"]
    /\ idx' = [idx EXCEPT ![p] = 1]
    /\ searched' = [searched EXCEPT ![p] = <<>>]
    /\ results' = [results EXCEPT ![p] = <<>>]
    /\ deliveries' = [deliveries EXCEPT ![p] = <<>>]
    /\ outcome' = [outcome EXCEPT ![p] = NoOutcome]
    /\ current_day' = [current_day EXCEPT ![p] = 1]
    /\ last_hourly_message' = [last_hourly_message EXCEPT ![p] = NoneDt]
    /\ decision' = [decision EXCEPT ![p] = FALSE]
    /\ gate_calls' = [gate_calls EXCEPT ![p] = 0]
    /\ gate_err' = [gate_err EXCEPT ![p] = ""]
    /\ exc' = [exc EXCEPT ![p] = ""]
    /\ UNCHANGED <<searches, data, all_results, startupVars, today,
                   throttleState, history>>

\* UTC midnight passes.
Tick ==
    /\ today < MaxDay
    /\ today' = today + 1
    /\ UNCHANGED <<searches, runVars, gateVars, startupVars, throttleState, history>>

RunStep(p) ==
    \/ RunStart(p)
    \/ CheckSeatsFails(p)
    \/ CheckSeatsNonObject(p)
    \/ CheckSeatsEmpty(p)
    \/ CheckSeatsRows(p)
    \/ SkipRoute(p)
    \/ PayloadRaises(p)
    \/ FilterResponse(p)
    \/ SearchReturn(p)
    \/ SendFound(p)
    \/ GateNow(p)
    \/ GateOpenLock(p)
    \/ GateFlock(p)
    \/ GateFlockBusy(p)
    \/ GateRead(p)
    \/ GateSave(p)
    \/ GateExit(p)
    \/ SendDaily(p)
    \/ ReturnSuccess(p)
    \/ HandleException(p)
    \/ Exit(p)

FaultStep(p) ==
    \/ GateOpenLockFails(p)
    \/ GateReadFails(p)
    \/ GateSaveFails(p)

Next ==
    \/ Tick
    \/ \E p \in Procs : RunStep(p)
    \/ \E p \in Procs : FaultStep(p)

Spec == Init /\ [][Next]_vars

\* ----------------------------------------- should_send_startup_message

StartupFrame ==
    UNCHANGED <<searches, exc, searchVars, deliveries, outcome, gateVars, today,
                ts_file, hourly_lock, true_count, called_for, io_fault, refused>>

\* A process calls should_send_startup_message.
StartupCall(p) ==
    /\ pc[p] = "idle"
    /\ marker_at_call' = [marker_at_call EXCEPT ![p] = sent_marker]
    /\ startup_decision' = [startup_decision EXCEPT ![p] = FALSE]
    /\ startup_err' = [startup_err EXCEPT ![p] = ""]
    /\ pc' = [pc EXCEPT ![p] = "startup_open"]
    /\ StartupFrame
    /\ UNCHANGED <<startup_lock, sent_marker, startup_trues>>

\* open(STARTUP_LOCK_FILE, 'w') succeeds.
StartupOpenLock(p) ==
    /\ pc[p] = "startup_open"
    /\ pc' = [pc EXCEPT ![p] = "startup_flock"]
    /\ StartupFrame
    /\ UNCHANGED <<startupVars, startup_lock, sent_marker, startup_trues>>

\* open(STARTUP_LOCK_FILE, 'w') raises IOError: `return False`.
StartupOpenLockFails(p) ==
    /\ pc[p] = "startup_open"
    /\ startup_err' = [startup_err EXCEPT ![p] = "lock"]
    /\ pc' = [pc EXCEPT ![p] = "startup_exit"]
    /\ StartupFrame
    /\ UNCHANGED <<startup_decision, marker_at_call, startup_lock, sent_marker,
                   startup_trues>>

\* flock(LOCK_EX | LOCK_NB) succeeds.
StartupFlock(p) ==
    /\ pc[p] = "startup_flock"
    /\ LockFree(startup_lock)
    /\ startup_lock' = p
    /\ pc' = [pc EXCEPT ![p] = "startup_check"]
    /\ StartupFrame
    /\ UNCHANGED <<startupVars, sent_marker, startup_trues>>

\* flock raises BlockingIOError: `except IOError: return False`.
StartupFlockBusy(p) ==
    /\ pc[p] = "startup_flock"
    /\ ~LockFree(startup_lock)
    /\ startup_err' = [startup_err EXCEPT ![p] = "busy"]
    /\ pc' = [pc EXCEPT ![p] = "startup_exit"]
    /\ StartupFrame
    /\ UNCHANGED <<startup_decision, marker_at_call, startup_lock, sent_marker,
                   startup_trues>>

\* Mutant: the marker is not looked at.
MarkerIgnored(marker) == FALSE

\* `if os.path.exists(STARTUP_LOCK_FILE + ".sent"): return False`
AlreadySent(marker) == marker

StartupCheck(p) ==
    /\ pc[p] = "startup_check"
    /\ pc' = [pc EXCEPT ![p] = IF AlreadySent(sent_marker)
                               THEN "startup_exit" ELSE "startup_mark"]
    /\ StartupFrame
    /\ UNCHANGED <<startupVars, startup_lock, sent_marker, startup_trues>>

\* open(STARTUP_LOCK_FILE + ".sent", 'w') creates the marker.
StartupMark(p) ==
    /\ pc[p] = "startup_mark"
    /\ sent_marker' = TRUE
    /\ pc' = [pc EXCEPT ![p] = "startup_write"]
    /\ StartupFrame
    /\ UNCHANGED <<startupVars, startup_lock, startup_trues>>

\* open(STARTUP_LOCK_FILE + ".sent", 'w') raises IOError: no marker, `return False`.
StartupMarkFails(p) ==
    /\ pc[p] = "startup_mark"
    /\ startup_err' = [startup_err EXCEPT ![p] = "write"]
    /\ pc' = [pc EXCEPT ![p] = "startup_exit"]
    /\ StartupFrame
    /\ UNCHANGED <<startup_decision, marker_at_call, startup_lock, sent_marker,
                   startup_trues>>

\* sent_file.write(...) succeeds; `return True`.
StartupWrite(p) ==
    /\ pc[p] = "startup_write"
    /\ startup_decision' = [startup_decision EXCEPT ![p] = TRUE]
    /\ pc' = [pc EXCEPT ![p] = "startup_exit"]
    /\ StartupFrame
    /\ UNCHANGED <<startup_err, marker_at_call, startup_lock, sent_marker,
                   startup_trues>>

\* sent_file.write(...) raises IOError: the (empty) marker stays, `return False`.
StartupWriteFails(p) ==
    /\ pc[p] = "startup_write"
    /\ startup_err' = [startup_err EXCEPT ![p] = "write"]
    /\ pc' = [pc EXCEPT ![p] = "startup_exit"]
    /\ StartupFrame
    /\ UNCHANGED <<startup_decision, marker_at_call, startup_lock, sent_marker,
                   startup_trues>>

\* Leaving the `with` block closes the lock file and releases the flock.
StartupExit(p) ==
    /\ pc[p] = "startup_exit"
    /\ startup_lock' = IF startup_lock = p THEN 0 ELSE startup_lock
    /\ pc' = [pc EXCEPT ![p] = "startup_return"]
    /\ StartupFrame
    /\ UNCHANGED <<startupVars, sent_marker, startup_trues>>

\* The call's value reaches its caller.
StartupReturn(p) ==
    /\ pc[p] = "startup_return"
    /\ startup_trues' = IF startup_decision[p] THEN Cap(startup_trues)
                        ELSE startup_trues
    /\ pc' = [pc EXCEPT ![p] = "idle"]
    /\ StartupFrame
    /\ UNCHANGED <<startupVars, startup_lock, sent_marker>>

StartupStep(p) ==
    \/ StartupCall(p)
    \/ StartupOpenLock(p)
    \/ StartupOpenLockFails(p)
    \/ StartupFlock(p)
    \/ StartupFlockBusy(p)
    \/ StartupCheck(p)
    \/ StartupMark(p)
    \/ StartupMarkFails(p)
    \/ StartupWrite(p)
    \/ StartupWriteFails(p)
    \/ StartupExit(p)
    \/ StartupReturn(p)

NextStartup == \E p \in Procs : StartupStep(p)

\* Processes that only call should_send_startup_message.
SpecStartup == Init /\ [][NextStartup]_vars

\* --------------------------------------------- sequential daily gate

NoOtherRun(p) == \A q \in Procs \ {p} : pc[q] = "idle"

\* Runs that never overlap, on a store and lock files that never fail.
NextSeq ==
    \/ Tick
    \/ \E p \in Procs : NoOtherRun(p) /\ RunStart(p)
    \/ \E p \in Procs : CheckSeatsFails(p)
    \/ \E p \in Procs : CheckSeatsNonObject(p)
    \/ \E p \in Procs : CheckSeatsEmpty(p)
    \/ \E p \in Procs : CheckSeatsRows(p)
    \/ \E p \in Procs : SkipRoute(p)
    \/ \E p \in Procs : PayloadRaises(p)
    \/ \E p \in Procs : FilterResponse(p)
    \/ \E p \in Procs : SearchReturn(p)
    \/ \E p \in Procs : SendFound(p)
    \/ \E p \in Procs : GateNow(p)
    \/ \E p \in Procs : GateOpenLock(p)
    \/ \E p \in Procs : GateFlock(p)
    \/ \E p \in Procs : GateRead(p)
    \/ \E p \in Procs : GateSave(p)
    \/ \E p \in Procs : GateExit(p)
    \/ \E p \in Procs : SendDaily(p)
    \/ \E p \in Procs : ReturnSuccess(p)
    \/ \E p \in Procs : HandleException(p)
    \/ \E p \in Procs : Exit(p)

SpecSeq == Init /\ [][NextSeq]_vars

\* ------------------------------------------------- filter pipeline runs

\* Route configurations the filter specification draws from: the three of
\* SearchConfig, one with required airlines and no preferences, and one with
\* preferences (a sub-rule without airlines among them) next to required
\* airlines of its own.
FilterConfigs ==
    { SearchConfig[i] : i \in DOMAIN SearchConfig } \cup
    { [period |-> "dec_us_to_asia",
       date_range |-> <<"2025-12-05", "2025-12-15">>,
       program |-> "alaska",
       route_config |->
         [name |-> "ORD-HND (AA only)",
          origins |-> {"ORD"},
          destinations |-> {"HND"},
          airlines |-> <<AA>>,
          max_miles |-> 75000,
          direct_only |-> FALSE,
          route_preferences |-> <<>>]],
      [period |-> "dec_us_to_asia",
       date_range |-> <<"2025-12-05", "2025-12-15">>,
       program |-> "aeroplan",
       route_config |->
         [name |-> "SEA-HKG any airline or LAX-TPE on JX",
          origins |-> {"SEA", "LAX"},
          destinations |-> {"HKG", "TPE"},
          airlines |-> <<AA>>,
          max_miles |-> 85000,
          direct_only |-> TRUE,
          route_preferences |->
            << [origins |-> {"SEA"}, destinations |-> {"HKG"}, airlines |-> <<>>],
               [origins |-> {"LAX"}, destinations |-> {"TPE"},
                airlines |-> <<JX>>] >>]] }

InitFilter ==
    /\ searches \in { <<s>> : s \in FilterConfigs }
    /\ InitLocals
    /\ InitShared

\* The body decodes to an object with one row (filter specification).
CheckSeatsRow(p) ==
    /\ pc[p] = "search_loop"
    /\ \E row \in AllRows : CheckSeats(p, Object(<<row>>))

\* One process runs search_routes over a one-route configuration.
NextFilter ==
    \/ RunStart(1)
    \/ CheckSeatsRow(1)
    \/ FilterResponse(1)
    \/ SearchReturn(1)

SpecFilter == InitFilter /\ [][NextFilter]_vars

\* ================================================================ claims

\* C1. Daily gate under concurrency: as long as reads and writes of the
\* persisted timestamp succeed, at most one call of should_send_hourly_message
\* returns True for any UTC calendar day, whatever the interleaving of the
\* callers' lock, read, write and release steps.
C1_AtMostOneTruePerDay ==
    ~io_fault => \A d \in Days : true_count[d] <= 1

\* Two overlapping calls for the same day: one holds the lock and has decided
\* True, the other was turned away by the lock.
C1_Witness ==
    /\ ~io_fault
    /\ \E p \in Procs, q \in Procs :
          /\ p # q
          /\ pc[p] = "gate_exit" /\ hourly_lock = p /\ decision[p]
          /\ pc[q] = "gate_exit" /\ gate_err[q] = "busy"
          /\ current_day[p] = current_day[q]

\* C2. Startup gate: over all calls of should_send_startup_message on the same
\* storage, overlapping or not, at most one returns True, and a call that
\* begins once the .sent marker exists returns False.
C2_StartupAtMostOnce ==
    /\ startup_trues <= 1
    /\ \A p \in Procs :
          (pc[p] = "startup_return" /\ marker_at_call[p]) => ~startup_decision[p]

\* One call has returned True and a later call, begun with the marker in
\* place, is returning False.
C2_Witness ==
    /\ startup_trues = 1
    /\ \E p \in Procs :
          pc[p] = "startup_return" /\ marker_at_call[p] /\ ~startup_decision[p]

\* C3. Fail closed: a gate call in which the lock could not be taken, or the
\* persisted marker or timestamp could not be read, parsed or written,
\* returns False.
C3_FailClosed ==
    \A p \in Procs :
       /\ (pc[p] = "gate_exit" /\ gate_err[p] # "") => ~decision[p]
       /\ (pc[p] = "startup_exit" /\ startup_err[p] # "") => ~startup_decision[p]

\* check_seats failed for the current triple: a network error, an error status
\* or a body that is not JSON (all returned as None), or a body that is JSON
\* but not the expected object.
CollaboratorFailed(d) == d.kind \in {"None", "nonobject"}

\* C4. Route isolation: when the search collaborator fails for one route (network
\* error, error status, malformed payload), that route adds no results and the
\* orchestrator goes on to the next triple in configuration order; the run is
\* not aborted.
C4_RouteIsolation ==
    [][\A p \in Procs :
         (pc[p] = "filter" /\ CollaboratorFailed(data[p]) /\ pc'[p] # pc[p])
            => /\ pc'[p] = "search_loop"
               /\ idx'[p] = idx[p] + 1
               /\ all_results'[p] = all_results[p]]_vars

\* The steps of a run that found flights, from the search to the return.
InFoundRun(p) ==
    \/ pc[p] \in {"search_loop", "filter"}
    \/ pc[p] \in {"results", "return"} /\ results[p] # <<>>

\* C5. Found messages are never throttled: a run whose search yields results
\* attempts one found-message delivery, never calls the daily gate, and none of
\* its steps changes the persisted throttle state (timestamp, marker, locks).
C5_FoundNotThrottled ==
    [][\A p \in Procs :
         (pc'[p] # pc[p]) =>
            /\ InFoundRun(p) => UNCHANGED throttleState
            /\ results'[p] # <<>> =>
                  /\ gate_calls'[p] = 0
                  /\ pc'[p] \in {"return", "done"} =>
                        /\ Len(deliveries'[p]) = 1
                        /\ deliveries'[p][1].kind = "found"]_vars

\* A run with results has delivered its found message while a digest was
\* already on record.
C5_Witness ==
    \E p \in Procs :
       /\ pc[p] = "done" /\ results[p] # <<>>
       /\ deliveries[p] # <<>> /\ deliveries[p][1].kind = "found"
       /\ ts_file.exists

\* C6. Run boundary: a run in which an exception was raised ends with outcome
\* status "error" after exactly one error-notice delivery attempt; a run in which
\* none was raised ends with status "success" and flights_found equal to the
\* number of qualifying results.
C6_RunBoundary ==
    \A p \in Procs :
       pc[p] = "done" =>
          IF exc[p] # ""
          THEN /\ outcome[p].status = "error"
               /\ Len(deliveries[p]) = 1
               /\ deliveries[p][1].kind = "error"
          ELSE /\ outcome[p].status = "success"
               /\ outcome[p].flights_found = Len(results[p])

\* A run ended by an exception whose error notice could not be delivered.
C6_Witness ==
    \E p \in Procs :
       /\ pc[p] = "done" /\ exc[p] # ""
       /\ outcome[p].status = "error"
       /\ ~deliveries[p][1].ok

\* C7. Daily gate, sequential: with no overlapping caller and a working store, a
\* call returns True exactly when it is the first call for its UTC day, and
\* then the store holds that day's midnight; so the gate closes for the rest of
\* the day and opens again on every later day.
C7_SequentialDaily ==
    \A p \in Procs :
       pc[p] = "gate_exit" =>
          /\ decision[p] = (current_day[p] \notin called_for)
          /\ decision[p] => ts_file = IsoFile(current_day[p])

\* The gate opens again: a call on a later day returns True after an earlier
\* day's call did, and a second call that later day is refused.
C7_Witness ==
    \E p \in Procs :
       /\ pc[p] = "gate_exit" /\ ~decision[p]
       /\ current_day[p] > 1
       /\ true_count[current_day[p]] = 1
       /\ true_count[1] = 1

\* C8. Empty-result run: a run whose search yields nothing consults the daily
\* gate exactly once; on True it attempts exactly one daily-digest delivery, on
\* False none; the outcome is success with flights_found 0 either way, also
\* when the delivery fails.
C8_EmptyRun ==
    \A p \in Procs :
       (pc[p] = "done" /\ exc[p] = "" /\ results[p] = <<>>) =>
          /\ gate_calls[p] = 1
          /\ outcome[p] = [status |-> "success", flights_found |-> 0]
          /\ IF decision[p]
             THEN Len(deliveries[p]) = 1 /\ deliveries[p][1].kind = "daily"
             ELSE deliveries[p] = <<>>

\* An empty run whose digest delivery failed.
C8_Witness ==
    \E p \in Procs :
       /\ pc[p] = "done" /\ exc[p] = "" /\ results[p] = <<>>
       /\ decision[p]
       /\ deliveries[p] # <<>> /\ ~deliveries[p][1].ok

\* The acceptance conditions as the claim words them.
C9_Qualifies(item, program, rc) ==
    /\ Lower(item.Source) = program
    /\ item.JAvailable /\ item.JRemainingSeats > 0
    /\ (IF item.JMileageCost = <<>> THEN 0 ELSE item.JMileageCost[1]) <= rc.max_miles
    /\ IF rc.route_preferences # <<>>
       THEN \E i \in DOMAIN rc.route_preferences :
               LET sub == rc.route_preferences[i] IN
               /\ item.OriginAirport \in sub.origins
               /\ item.DestinationAirport \in sub.destinations
               /\ sub.airlines # <<>> =>
                     \E a \in DOMAIN sub.airlines :
                        Contains(sub.airlines[a], item.JAirlines)
       ELSE rc.airlines # <<>> =>
               \E a \in DOMAIN rc.airlines : Contains(rc.airlines[a], item.JAirlines)
    /\ rc.direct_only => item.JDirect

\* C9. Filter acceptance: a returned row is appended to the run's results if and
\* only if its lower-cased source equals the program, it has business seats, its
\* mileage cost (missing counted as 0) is at most max_miles, it matches a
\* sub-rule of route_preferences when that is set and the required airlines
\* otherwise, and it is direct when direct_only is set.
C9_FilterAcceptance ==
    [][\A p \in Procs :
         (pc[p] = "filter" /\ pc'[p] = "search_loop") =>
            LET s == searches[idx[p]]
                rows == data[p].rows
                kept == { i \in DOMAIN rows :
                            C9_Qualifies(rows[i], s.program, s.route_config) }
            IN /\ Len(all_results'[p]) = Len(all_results[p]) + Cardinality(kept)
               /\ \A i \in kept :
                     \E k \in DOMAIN all_results'[p] :
                        /\ k > Len(all_results[p])
                        /\ all_results'[p][k].origin = rows[i].OriginAirport
                        /\ all_results'[p][k].route_name = s.route_config.name]_vars

\* A row whose cost equals max_miles has been appended under a route with
\* preferences.
C9_Witness ==
    \E p \in Procs :
       /\ Len(all_results[p]) = 1
       /\ searches[1].route_config.route_preferences # <<>>
       /\ all_results[p][1].miles = searches[1].route_config.max_miles

====
